---- MODULE Spec2Model ----
(***************************************************************************)
(* The Kinetic Monte Carlo script rabbits-and-foxes-kmc-answer.py (and its *)
(* twin rabbits-and-foxes-kmc.py, which differs only in variable names):   *)
(* the ensemble loop `for run in range(runs)`, the inner KMC while loop,   *)
(* the second-peak extraction and the running statistics.                  *)
(*                                                                         *)
(* Units.  Time is counted in ticks of 1/TicksPerDay day, so the horizon   *)
(* end_time = 600 days is EndTicks ticks and the filter `times > 200` is   *)
(* `times > PeakTicks`.  Rates are counted in units of 4e-5 events per     *)
(* day, so that k1..k4 = 0.015, 0.00004, 0.0004, 0.04 are the integers     *)
(* 375, 1, 10, 1000.  The statistics (np.mean, np.percentile) are exact    *)
(* rationals <<numerator, denominator>> in lowest terms.                   *)
(*                                                                         *)
(* Random draws.  `random` is a seeded generator: the whole execution is a *)
(* function of the seed.  The model chooses the seed at Init from Seeds    *)
(* and reads the draws of one loop iteration, (wait_time, random()), from  *)
(* Stream(seed, pos), pos being the number of iterations that have drawn.  *)
(***************************************************************************)
EXTENDS Integers, Sequences, FiniteSets, TLC

VARIABLES
    seed,                   \* random.seed(...): which stream of draws
    pos,                    \* iterations that have drawn from the stream
    pc,                     \* "for" | "while" | "break" | "done"
    run,                    \* the for loop's variable; -1 before the first run
    time, rabbit, fox,      \* state of the current trajectory
    times, rabbits, foxes,  \* the trajectory's recorded samples
    dead_foxes, dead_everything,
    index_of_second_peak,
    second_peak_times, second_peak_foxes,
    mean_times, mean_foxes,
    upper_quartile_times, lower_quartile_times,
    upper_quartile_foxes, lower_quartile_foxes

vars == <<seed, pos, pc, run, time, rabbit, fox, times, rabbits, foxes,
          dead_foxes, dead_everything, index_of_second_peak,
          second_peak_times, second_peak_foxes, mean_times, mean_foxes,
          upper_quartile_times, lower_quartile_times,
          upper_quartile_foxes, lower_quartile_foxes>>

stats == <<index_of_second_peak, second_peak_times, second_peak_foxes,
           mean_times, mean_foxes, upper_quartile_times, lower_quartile_times,
           upper_quartile_foxes, lower_quartile_foxes>>

(***************************** bounds ***************************************)
\* Number of trajectories of the ensemble (1000 in the script).
runs == 2

\* Resolution of simulated time: ticks per day.
TicksPerDay == 2

(************************* program constants ********************************)
k1 == 375
k2 == 1
k3 == 10
k4 == 1000
end_time == 600
rabbit0 == 400
fox0 == 200
peak_min_time == 200
peak_min_foxes == 100

EndTicks == end_time * TicksPerDay
PeakTicks == peak_min_time * TicksPerDay

(***************************** random draws *********************************)
Seeds == 1..5

\* The draws of the iteration at position p of the stream of seed s:
\* <<wait_time in ticks, random() in 1/10000>>.  Every wait_time is positive.
\*  seed 1: short waits, random() close to 1 (the last event with rate > 0).
\*  seed 2: as seed 1 for 399 draws, then short waits with random() = 1/2.
\*  seed 3: as seed 1 for 599 draws, then waits of almost the whole horizon
\*          with random() = 0.
\*  seed 4: waits of the whole horizon, random() = 0.
\*  seed 5: waits of 1 and 2 ticks in turn, random() = 0 and 7/10 in turn.
Stream(s, p) ==
    CASE s = 1 -> <<1, 9999>>
      [] s = 2 -> IF p < 399 THEN <<1, 9999>> ELSE <<1, 5000>>
      [] s = 3 -> IF p < 599 THEN <<1, 9999>> ELSE <<EndTicks - 1, 0>>
      [] s = 4 -> <<EndTicks, 0>>
      [] OTHER -> IF p % 2 = 0 THEN <<1, 0>> ELSE <<2, 7000>>

\* wait_time = random.expovariate(sum_rates)
expovariate(s, p) == Stream(s, p)[1]

\* random.uniform(a, b) = a + (b - a) * random(), rounded down to the unit
\* of the rates (the product is split so that it stays within 32 bits).
uniform(a, b, s, p) ==
    LET q == Stream(s, p)[2]
        d == b - a
    IN  a + (d \div 10000) * q + ((d % 10000) * q) \div 10000

(******************************* get_rates **********************************)
\* Faulty variant of get_rates: rabbit births are proportional to the foxes
\* too, so the rates all vanish with rabbits left when the foxes are gone.
get_rates_BirthNeedsFoxes(r, f) == <<k1 * r * f, k2 * r * f, k3 * r * f, k4 * f>>

\* (rabbit_birth, rabbit_death, fox_birth, fox_death)
get_rates(r, f) == <<k1 * r, k2 * r * f, k3 * r * f, k4 * f>>

sum(rates) == rates[1] + rates[2] + rates[3] + rates[4]

(*************************** event selection ********************************)
\* Faulty variant: the second test is `choice <= 0`, so a fox death can be
\* selected although its rate is zero.
SelectEvent_LooseTest(rabbit_birth, fox_birth, fox_death, choice) ==
    LET c1 == choice - fox_birth
        c2 == c1 - fox_death
    IN  IF c1 < 0 THEN "fox_born"
        ELSE IF c2 <= 0 THEN "fox_died"
        ELSE IF c2 < rabbit_birth THEN "rabbit_born"
        ELSE "rabbit_died"

\* Faulty variant: fox_birth is compared with but not subtracted from choice,
\* so the intervals of fox birth and fox death overlap.
SelectEvent_NoSubtract(rabbit_birth, fox_birth, fox_death, choice) ==
    LET c2 == choice - fox_death
    IN  IF choice < fox_birth THEN "fox_born"
        ELSE IF c2 < 0 THEN "fox_died"
        ELSE IF c2 < rabbit_birth THEN "rabbit_born"
        ELSE "rabbit_died"

\* The chain of lines 115-130: subtract fox_birth, test, subtract fox_death,
\* test, compare with rabbit_birth.
SelectEvent(rabbit_birth, fox_birth, fox_death, choice) ==
    LET c1 == choice - fox_birth
        c2 == c1 - fox_death
    IN  IF c1 < 0 THEN "fox_born"
        ELSE IF c2 < 0 THEN "fox_died"
        ELSE IF c2 < rabbit_birth THEN "rabbit_born"
        ELSE "rabbit_died"

(******************************* statistics *********************************)
RECURSIVE GCD(_, _)
GCD(a, b) == IF b = 0 THEN a ELSE GCD(b, a % b)

\* n/d in lowest terms (n >= 0, d > 0).
Rat(n, d) == LET g == GCD(n, d) IN <<n \div g, d \div g>>

RECURSIVE SumSeq(_)
SumSeq(s) == IF s = <<>> THEN 0 ELSE Head(s) + SumSeq(Tail(s))

\* np.mean(a)
Mean(a) == Rat(SumSeq(a), Len(a))

\* np.percentile(a, q), linear interpolation between the order statistics
\* around the fractional index (n - 1) * q / 100.
Percentile(a, q) ==
    LET s  == SortSeq(a, LAMBDA x, y : x < y)
        h  == (Len(a) - 1) * q
        lo == h \div 100
        fr == h % 100
    IN  IF fr = 0 THEN Rat(s[lo + 1], 1)
        ELSE Rat(s[lo + 1] * 100 + (s[lo + 2] - s[lo + 1]) * fr, 100)

\* np.zeros(runs)
Zeros == [i \in 0..(runs - 1) |-> <<0, 1>>]

(**************************** peak extraction *******************************)
Bool(b) == IF b THEN 1 ELSE 0

\* Faulty variant of Masked: the time filter is `times >= 200`.
Masked_Inclusive(fs, ts, i) ==
    fs[i] * Bool(ts[i] >= PeakTicks) * Bool(fs[i] > peak_min_foxes)

\* Element i (1-based) of foxes*(times>200)*(foxes>100)
Masked(fs, ts, i) ==
    fs[i] * Bool(ts[i] > PeakTicks) * Bool(fs[i] > peak_min_foxes)

\* The largest element of a non-empty set of integers.
MaxOf(S) == CHOOSE v \in S : \A w \in S : w <= v

\* The first index (1-based) at which foxes*(times>200)*(foxes>100) is v.
FirstIndexOf(fs, ts, v) ==
    CHOOSE i \in 1..Len(fs) :
        Masked(fs, ts, i) = v /\ \A j \in 1..(i - 1) : Masked(fs, ts, j) # v

\* Faulty variant of ArgMax: the index counts only the samples that pass the
\* filter, so the first of them has index 0.
ArgMax_Filtered(fs, ts) ==
    CHOOSE r \in UNION { { Cardinality({j \in 1..(FirstIndexOf(fs, ts, mx) - 1) :
                                           Masked(fs, ts, j) > 0}) :
                             mx \in {MaxOf(vals)} } :
                         vals \in {{Masked(fs, ts, i) : i \in 1..Len(fs)}} } : TRUE

\* np.argmax(foxes*(times>200)*(foxes>100)): the 0-based index of the first
\* occurrence of the maximum.  (The set of values and the maximum are bound
\* by quantifiers, so that each is computed once.)
ArgMax(fs, ts) ==
    CHOOSE r \in UNION { { FirstIndexOf(fs, ts, mx) - 1 : mx \in {MaxOf(vals)} } :
                         vals \in {{Masked(fs, ts, i) : i \in 1..Len(fs)}} } : TRUE

(********************************* Init *************************************)
Init ==
    /\ seed \in Seeds
    /\ pos = 0
    /\ pc = "for"
    /\ run = -1
    /\ time = 0
    /\ rabbit = rabbit0
    /\ fox = fox0
    /\ times = <<>>
    /\ rabbits = <<>>
    /\ foxes = <<>>
    /\ dead_foxes = 0
    /\ dead_everything = 0
    /\ index_of_second_peak = 0
    /\ second_peak_times = <<>>
    /\ second_peak_foxes = <<>>
    /\ mean_times = Zeros
    /\ mean_foxes = Zeros
    /\ upper_quartile_times = Zeros
    /\ lower_quartile_times = Zeros
    /\ upper_quartile_foxes = Zeros
    /\ lower_quartile_foxes = Zeros

(******************************* the for loop *******************************)
\* Faulty variant of MoreRuns: the loop is over range(runs - 1).
MoreRuns_OffByOne == run + 2 < runs

\* range(runs) has another value after `run`.
MoreRuns == run + 1 < runs

\* for run in range(runs): the next run starts (lines 87-95).
StartRun ==
    /\ pc = "for"
    /\ MoreRuns
    /\ run' = run + 1
    /\ time' = 0
    /\ rabbit' = rabbit0
    /\ fox' = fox0
    /\ times' = <<>>
    /\ rabbits' = <<>>
    /\ foxes' = <<>>
    /\ pc' = "while"
    /\ UNCHANGED <<seed, pos, dead_foxes, dead_everything, stats>>

\* range(runs) is exhausted: the script goes on to its report.
Finish ==
    /\ pc = "for"
    /\ ~MoreRuns
    /\ pc' = "done"
    /\ UNCHANGED <<seed, pos, run, time, rabbit, fox, times, rabbits, foxes,
                   dead_foxes, dead_everything, stats>>

(****************************** the while loop ******************************)
\* Faulty variant of LoopCond: the test is `time <= end_time`.
LoopCond_Inclusive == time <= EndTicks

\* while time < end_time
LoopCond == time < EndTicks

rates == get_rates(rabbit, fox)
sum_rates == sum(rates)
choice == uniform(0, sum_rates, seed, pos)
event == SelectEvent(rates[1], rates[3], rates[4], choice)

\* Lines 98-100 of every iteration: the sample is recorded before the event.
Record ==
    /\ times' = Append(times, time)
    /\ rabbits' = Append(rabbits, rabbit)
    /\ foxes' = Append(foxes, fox)

\* Faulty variant of AllDead: the `break` is missing.
AllDead_NoBreak ==
    /\ pc = "while"
    /\ LoopCond
    /\ sum_rates = 0
    /\ dead_everything' = dead_everything + 1
    /\ times' = Append(Append(times, time), EndTicks)
    /\ rabbits' = Append(Append(rabbits, rabbit), rabbit)
    /\ foxes' = Append(Append(foxes, fox), fox)
    /\ pc' = "while"
    /\ UNCHANGED <<seed, pos, run, time, rabbit, fox, dead_foxes, stats>>

\* Lines 103-109: nothing can happen any more.
AllDead ==
    /\ pc = "while"
    /\ LoopCond
    /\ sum_rates = 0
    /\ dead_everything' = dead_everything + 1
    /\ times' = Append(Append(times, time), EndTicks)
    /\ rabbits' = Append(Append(rabbits, rabbit), rabbit)
    /\ foxes' = Append(Append(foxes, fox), fox)
    /\ pc' = "break"
    /\ UNCHANGED <<seed, pos, run, time, rabbit, fox, dead_foxes, stats>>

\* Faulty variant of Draw: the waiting time is drawn but not added to time.
Draw_NoAdvance ==
    /\ pc = "while"
    /\ LoopCond
    /\ sum_rates # 0
    /\ Record
    /\ time' = time
    /\ pos' = pos + 1
    /\ pc' = "while"
    /\ UNCHANGED <<seed, run, dead_everything, stats>>

\* Lines 110-112 of an iteration that draws.
Draw ==
    /\ pc = "while"
    /\ LoopCond
    /\ sum_rates # 0
    /\ Record
    /\ time' = time + expovariate(seed, pos)
    /\ pos' = pos + 1
    /\ pc' = "while"
    /\ UNCHANGED <<seed, run, dead_everything, stats>>

FoxBorn ==
    /\ Draw
    /\ event = "fox_born"
    /\ fox' = fox + 1
    /\ UNCHANGED <<rabbit, dead_foxes>>

\* Faulty variant of FoxDied: two foxes die at once.
FoxDied_Two ==
    /\ Draw
    /\ event = "fox_died"
    /\ fox' = fox - 2
    /\ dead_foxes' = IF fox - 2 = 0 THEN dead_foxes + 1 ELSE dead_foxes
    /\ UNCHANGED rabbit

\* Faulty variant of FoxDied: every fox death is counted in dead_foxes.
FoxDied_CountAll ==
    /\ Draw
    /\ event = "fox_died"
    /\ fox' = fox - 1
    /\ dead_foxes' = dead_foxes + 1
    /\ UNCHANGED rabbit

\* Lines 119-126.
FoxDied ==
    /\ Draw
    /\ event = "fox_died"
    /\ fox' = fox - 1
    /\ dead_foxes' = IF fox - 1 = 0 THEN dead_foxes + 1 ELSE dead_foxes
    /\ UNCHANGED rabbit

RabbitBorn ==
    /\ Draw
    /\ event = "rabbit_born"
    /\ rabbit' = rabbit + 1
    /\ UNCHANGED <<fox, dead_foxes>>

RabbitDied ==
    /\ Draw
    /\ event = "rabbit_died"
    /\ rabbit' = rabbit - 1
    /\ UNCHANGED <<fox, dead_foxes>>

(************************ after the while loop ******************************)
\* Faulty variant of Collected: the new peak replaces the list.
Collected_Replace(list, i, samples) ==
    IF i # 0 THEN <<samples[i + 1]>> ELSE list

\* Lines 137-139: the sample at index i joins the list, unless i is falsy.
Collected(list, i, samples) ==
    IF i # 0 THEN Append(list, samples[i + 1]) ELSE list

\* Lines 141-147: entry `run` of a statistics array is set from the peaks
\* collected so far, when there are any.
Running(arr, collected, value) ==
    IF Len(collected) > 0 THEN [arr EXCEPT ![run] = value] ELSE arr

\* Lines 132-147: the peak of this run and the running statistics.  (The
\* index is bound by a quantifier so that np.argmax is computed once.)
Aggregate ==
    /\ \/ pc = "break"
       \/ pc = "while" /\ ~LoopCond
    /\ \E i \in {ArgMax(foxes, times)} :
       LET spt == Collected(second_peak_times, i, times)
           spf == Collected(second_peak_foxes, i, foxes)
       IN  /\ index_of_second_peak' = i
           /\ second_peak_times' = spt
           /\ second_peak_foxes' = spf
           /\ mean_times' = Running(mean_times, spt, Mean(spt))
           /\ mean_foxes' = Running(mean_foxes, spt, Mean(spf))
           /\ upper_quartile_times' =
                 Running(upper_quartile_times, spt, Percentile(spt, 75))
           /\ lower_quartile_times' =
                 Running(lower_quartile_times, spt, Percentile(spt, 25))
           /\ upper_quartile_foxes' =
                 Running(upper_quartile_foxes, spt, Percentile(spf, 75))
           /\ lower_quartile_foxes' =
                 Running(lower_quartile_foxes, spt, Percentile(spf, 25))
    /\ pc' = "for"
    /\ UNCHANGED <<seed, pos, run, time, rabbit, fox, times, rabbits, foxes,
                   dead_foxes, dead_everything>>

Next ==
    \/ StartRun
    \/ AllDead
    \/ FoxBorn
    \/ FoxDied
    \/ RabbitBorn
    \/ RabbitDied
    \/ Aggregate
    \/ Finish

Spec == Init /\ [][Next]_vars

\* The script runs to its end: no step that can be taken is postponed forever.
FairSpec == Spec /\ WF_vars(Next)

(****************************************************************************)
(*                               Properties                                 *)
(****************************************************************************)
Abs(x) == IF x < 0 THEN -x ELSE x

Last(s) == s[Len(s)]

\* The values of choice next to every boundary of the partition of
\* [0, sum_rates) at the current counts, and the two ends of the range.
ChoicePoints ==
    LET fb == rates[3]
        fd == rates[4]
        rb == rates[1]
    IN  {c \in {0, fb - 1, fb, fb + fd - 1, fb + fd, fb + fd + rb - 1,
                fb + fd + rb, sum_rates - 1} : 0 <= c /\ c < sum_rates}

Chain(c) == SelectEvent(rates[1], rates[3], rates[4], c)

\* C1: in every state of the KMC loop, the state after the event that crosses
\* the horizon included, both counts and every recorded count are naturals;
\* no choice in [0, sum_rates) selects a fox death when fox = 0 or a rabbit
\* death when rabbit = 0.
C1_CountsAreNaturals ==
    /\ rabbit \in Nat
    /\ fox \in Nat
    /\ \A i \in 1..Len(times) : rabbits[i] \in Nat /\ foxes[i] \in Nat
    /\ \A c \in ChoicePoints :
          /\ fox = 0 => Chain(c) # "fox_died"
          /\ rabbit = 0 => Chain(c) # "rabbit_died"

\* An event has been selected with no fox left, and it crossed the horizon.
C1_Witness ==
    /\ pc = "while"
    /\ time >= EndTicks
    /\ Last(foxes) = 0
    /\ fox = 0
    /\ rabbit = Last(rabbits) + 1

\* Sample i + 1 is the synthetic one of the all-dead branch: the only sample
\* recorded with the horizon as its time.
Terminal(i) == times[i] = EndTicks

\* C2: between consecutive samples, the terminal sample apart, exactly one of
\* the two counts changes, by +1 or -1; the first sample is (0, 400, 200).
C2_OneEventPerSample ==
    /\ Len(times) = Len(rabbits) /\ Len(times) = Len(foxes)
    /\ Len(times) > 0 =>
          times[1] = 0 /\ rabbits[1] = rabbit0 /\ foxes[1] = fox0
    /\ \A i \in 1..(Len(times) - 1) :
          ~Terminal(i + 1) =>
             Abs(rabbits[i + 1] - rabbits[i]) + Abs(foxes[i + 1] - foxes[i]) = 1

\* A trajectory in which both counts have changed and that ends with the
\* terminal sample.
C2_Witness ==
    /\ pc = "break"
    /\ Len(times) >= 3
    /\ rabbits[Len(rabbits) - 1] # rabbits[1]
    /\ foxes[Len(foxes) - 1] # foxes[1]

\* C3: the times of successive samples of a trajectory increase strictly, the
\* terminal sample included, the time of the loop is past the last ordinary
\* sample once its iteration has drawn, and time never decreases in a run.
C3_TimeIncreases ==
    /\ [](/\ \A i \in 1..(Len(times) - 1) : times[i] < times[i + 1]
          /\ (pc = "while" /\ Len(times) > 0) => Last(times) < time)
    /\ [][run' = run => time' >= time]_vars

\* A trajectory with short and long waits whose last wait crossed the horizon.
C3_Witness ==
    /\ pc = "while"
    /\ time >= EndTicks
    /\ Len(times) >= 3
    /\ time - Last(times) > times[2] - times[1]

\* C4: the iteration entered with rabbit = 0, fox = 0 and time below the
\* horizon fires no event and draws nothing; it counts the run in
\* dead_everything, leaves (T, 0, 0) as the last sample and ends the loop; the
\* samples then stay as they are until the next run starts.
C4_AbsorbingState ==
    /\ [][(pc = "while" /\ rabbit = 0 /\ fox = 0 /\ LoopCond) =>
            /\ dead_everything' = dead_everything + 1
            /\ times' = times \o <<time, EndTicks>>
            /\ rabbits' = rabbits \o <<0, 0>>
            /\ foxes' = foxes \o <<0, 0>>
            /\ UNCHANGED <<time, rabbit, fox, pos, dead_foxes>>
            /\ pc' = "break"]_vars
    /\ [][pc = "break" =>
            /\ UNCHANGED <<times, rabbits, foxes, time, rabbit, fox>>
            /\ pc' = "for"]_vars

\* The run has ended in the all-dead branch before the horizon.
C4_Witness ==
    /\ pc = "break"
    /\ time < EndTicks
    /\ rabbit = 0 /\ fox = 0
    /\ Last(times) = EndTicks
    /\ dead_everything >= 1

\* The ordered partition of [0, sum_rates) the claim describes.
PartitionEvent(rabbit_birth, fox_birth, fox_death, c) ==
    IF c < fox_birth THEN "fox_born"
    ELSE IF c < fox_birth + fox_death THEN "fox_died"
    ELSE IF c < fox_birth + fox_death + rabbit_birth THEN "rabbit_born"
    ELSE "rabbit_died"

RateOf(e) ==
    CASE e = "rabbit_born" -> rates[1]
      [] e = "rabbit_died" -> rates[2]
      [] e = "fox_born" -> rates[3]
      [] e = "fox_died" -> rates[4]

\* C5: at every reachable pair of counts and for every choice next to a
\* boundary, the subtraction chain selects the event of the ordered partition
\* fox birth, fox death, rabbit birth, rabbit death of [0, sum_rates), and the
\* event it selects has a positive rate.
C5_ChainIsPartition ==
    \A c \in ChoicePoints :
        /\ Chain(c) = PartitionEvent(rates[1], rates[3], rates[4], c)
        /\ RateOf(Chain(c)) > 0

\* The chain has selected a rabbit death with all four rates positive and
\* later a fox death with the other three rates zero.
C5_Witness ==
    /\ pc = "while"
    /\ Len(times) >= 2
    /\ rabbits[1] > rabbits[2]
    /\ rabbit = 0
    /\ Last(rabbits) = 0
    /\ fox = Last(foxes) - 1

\* The samples of the trajectory that pass the filter of the second peak.
Qualifying == {i \in 1..Len(times) : times[i] > PeakTicks /\ foxes[i] > peak_min_foxes}

\* The step that leaves the while loop and extracts the peak.
Extracts == pc # "for" /\ pc' = "for"

\* C6: the extraction appends a pair exactly when a sample has time > 200 and
\* foxes > 100, and the pair is then such a sample with the largest fox count
\* among them; otherwise both lists stay as they are.
C6_PeakExtraction ==
    [][Extracts =>
         /\ Qualifying = {} =>
               UNCHANGED <<second_peak_times, second_peak_foxes>>
         /\ Qualifying # {} =>
               \E i \in Qualifying :
                  /\ second_peak_times' = Append(second_peak_times, times[i])
                  /\ second_peak_foxes' = Append(second_peak_foxes, foxes[i])
                  /\ \A j \in Qualifying : foxes[j] <= foxes[i]]_vars

\* A peak was extracted from a trajectory in which the largest fox count
\* of the filtered samples occurs more than once.
C6_Witness ==
    /\ pc = "for"
    /\ index_of_second_peak > 0
    /\ Len(second_peak_foxes) > 0
    /\ Last(second_peak_foxes) = foxes[index_of_second_peak + 1]
    /\ \E j \in Qualifying :
          j > index_of_second_peak + 1 /\ foxes[j] = Last(second_peak_foxes)

\* C7: dead_foxes is incremented only by a fox death that happens at a time
\* below the horizon.
C7_FoxesDieBeforeHorizon ==
    [][dead_foxes' # dead_foxes => time' < EndTicks]_vars

\* C8: every run leaves its while loop and the ensemble loop ends after
\* exactly `runs` trajectories.
C8_Terminates == <>(pc = "done" /\ run + 1 = runs)

\* The script has ended after runs that left the loop through the all-dead
\* branch (other streams end with runs that left it at the horizon).
C8_Witness ==
    /\ pc = "done"
    /\ run + 1 = runs
    /\ dead_everything >= 1
    /\ time < EndTicks

\* x is the exact mean of the list a.
IsMeanOf(x, a) == x[1] * Len(a) = SumSeq(a) * x[2]

\* C10: a run appends at most one pair, at the end of both lists and exactly
\* when it found a peak, and no other step changes the lists; when the lists
\* are not empty, entry `run` of every statistics array is computed over the
\* whole of them and the other entries stay as they are.
C10_CumulativeStatistics ==
    /\ [](Len(second_peak_times) = Len(second_peak_foxes))
    /\ [][~Extracts => UNCHANGED <<second_peak_times, second_peak_foxes>>]_vars
    /\ [][Extracts =>
            /\ Qualifying = {} =>
                  UNCHANGED <<second_peak_times, second_peak_foxes>>
            /\ Qualifying # {} =>
                  \E i \in Qualifying :
                     /\ second_peak_times' = Append(second_peak_times, times[i])
                     /\ second_peak_foxes' = Append(second_peak_foxes, foxes[i])
            /\ Len(second_peak_times') > 0 =>
                  /\ IsMeanOf(mean_times'[run], second_peak_times')
                  /\ IsMeanOf(mean_foxes'[run], second_peak_foxes')
                  /\ upper_quartile_times'[run] = Percentile(second_peak_times', 75)
                  /\ lower_quartile_times'[run] = Percentile(second_peak_times', 25)
                  /\ upper_quartile_foxes'[run] = Percentile(second_peak_foxes', 75)
                  /\ lower_quartile_foxes'[run] = Percentile(second_peak_foxes', 25)
            /\ \A r \in (0..(runs - 1)) \ {run} :
                  /\ mean_times'[r] = mean_times[r]
                  /\ mean_foxes'[r] = mean_foxes[r]
                  /\ upper_quartile_times'[r] = upper_quartile_times[r]
                  /\ lower_quartile_times'[r] = lower_quartile_times[r]
                  /\ upper_quartile_foxes'[r] = upper_quartile_foxes[r]
                  /\ lower_quartile_foxes'[r] = lower_quartile_foxes[r]]_vars

\* Two runs have each added a peak, the peaks differ, and the entry of the
\* later run is the mean of both.
C10_Witness ==
    /\ pc = "for"
    /\ run >= 1
    /\ Len(second_peak_times) >= 2
    /\ second_peak_times[1] # second_peak_times[2]
    /\ mean_times[run] # <<Last(second_peak_times), 1>>
    /\ mean_times[run] # mean_times[run - 1]

\* C11: from a state of the loop with no fox and rabbits left, the run does
\* not take the all-dead branch; below the horizon its next step is a rabbit
\* birth that records a sample and stays in the loop, at the horizon it
\* leaves the loop with the counts as they are; the fox count stays 0.  In the
\* trajectory, a sample with no fox and rabbits left is followed by a sample
\* below the horizon with no fox and one more rabbit.
C11_FoxExtinctionContinues ==
    /\ [](\A i \in 1..(Len(times) - 1) :
             (foxes[i] = 0 /\ rabbits[i] > 0) =>
                /\ foxes[i + 1] = 0
                /\ rabbits[i + 1] = rabbits[i] + 1
                /\ times[i + 1] < EndTicks)
    /\ [][(pc = "while" /\ fox = 0 /\ rabbit > 0) =>
            /\ fox' = 0
            /\ dead_everything' = dead_everything
            /\ dead_foxes' = dead_foxes
            /\ pc' # "break"
            /\ LoopCond =>
                  /\ pc' = "while"
                  /\ rabbit' = rabbit + 1
                  /\ times' = Append(times, time)
                  /\ foxes' = Append(foxes, 0)
            /\ ~LoopCond =>
                  /\ pc' = "for"
                  /\ UNCHANGED <<rabbit, times, rabbits, foxes>>]_vars

\* The last fox died below the horizon with rabbits left, and the run went
\* on with rabbit births until an event crossed the horizon.
C11_Witness ==
    /\ pc = "while"
    /\ time >= EndTicks
    /\ fox = 0
    /\ dead_everything = 0
    /\ \E i \in 1..(Len(times) - 2) :
          /\ foxes[i] = 1
          /\ foxes[i + 1] = 0
          /\ rabbits[i + 1] > 0
          /\ Last(rabbits) > rabbits[i + 1]
          /\ rabbit = Last(rabbits) + 1

\* The first sample of the trajectory that passes the filter.
FirstQualifying == CHOOSE i \in Qualifying : \A j \in Qualifying : i <= j

\* The largest fox count of the filtered samples is that of the first of them.
PeakIsFirstQualifying ==
    /\ Qualifying # {}
    /\ \E f \in {FirstQualifying} : \A j \in Qualifying : foxes[j] <= foxes[f]

\* C12 as stated: when the largest fox count of the filtered samples is at
\* the first of them, the extraction appends nothing.
C12_FirstQualifyingPeakIsDropped ==
    [][(Extracts /\ PeakIsFirstQualifying) =>
          UNCHANGED <<second_peak_times, second_peak_foxes>>]_vars

\* C12, amended: the sample of index 0 is the one of time 0 and never passes
\* the filter, so the extraction finds index 0 exactly when no sample passes
\* it; when the largest fox count of the filtered samples is at the first of
\* them, the index is that sample's, it is at least 1, and the sample is
\* appended to both lists.
C12_IndexZeroMeansNoPeak ==
    /\ [](1 \notin Qualifying)
    /\ [][Extracts =>
            /\ index_of_second_peak' = 0 <=> Qualifying = {}
            /\ PeakIsFirstQualifying =>
                  \E f \in {FirstQualifying} :
                     /\ index_of_second_peak' = f - 1
                     /\ index_of_second_peak' >= 1
                     /\ second_peak_times' = Append(second_peak_times, times[f])
                     /\ second_peak_foxes' = Append(second_peak_foxes, foxes[f])]_vars

\* A run whose largest filtered fox count is at the first filtered sample has
\* been extracted, and that sample is the last pair of the lists.
C12_Witness ==
    /\ pc = "for"
    /\ PeakIsFirstQualifying
    /\ index_of_second_peak = FirstQualifying - 1
    /\ Len(second_peak_times) > 0
    /\ Last(second_peak_times) = times[FirstQualifying]
    /\ Last(second_peak_foxes) = foxes[FirstQualifying]

\* C13: every sample has a time below the horizon, except the terminal sample
\* of the all-dead branch, which is the last one, has the horizon as its time
\* and both counts 0.  When the loop ends at the horizon, the counts are
\* those of the last sample changed by one event, and no sample holds them at
\* the time of that event.  A sample is recorded by every event and by
\* nothing else but the all-dead branch, so the trajectory of a run that ends
\* at the horizon has as many samples as events were fired (in the first run,
\* as many as draws were made).
C13_SamplesBelowHorizon ==
    /\ [](\A i \in 1..Len(times) :
             \/ times[i] < EndTicks
             \/ /\ times[i] = EndTicks
                /\ i = Len(times)
                /\ rabbits[i] = 0 /\ foxes[i] = 0
                /\ pc # "while")
    /\ []((pc = "while" /\ ~LoopCond) =>
             /\ Len(times) > 0
             /\ Last(times) < EndTicks
             /\ Abs(rabbit - Last(rabbits)) + Abs(fox - Last(foxes)) = 1
             /\ \A i \in 1..Len(times) : times[i] # time)
    /\ []((run = 0 /\ (pc = "while" \/ (pc = "for" /\ Last(times) < EndTicks)))
             => Len(times) = pos)
    /\ [][/\ pos' # pos =>
                /\ pos' = pos + 1
                /\ Len(times') = Len(times) + 1
                /\ Abs(rabbit' - rabbit) + Abs(fox' - fox) = 1
          /\ run' # run => Len(times') = 0 /\ pos' = pos
          /\ (run' = run /\ pos' = pos /\ times' # times) =>
                pc' = "break" /\ Last(times') = EndTicks]_vars

\* The first run has left the loop at the horizon after several events, the
\* last of which changed the fox count that the last sample holds.
C13_Witness ==
    /\ pc = "while"
    /\ ~LoopCond
    /\ run = 0
    /\ Len(times) >= 2
    /\ pos = Len(times)
    /\ fox # Last(foxes)

\* C14: dead_foxes is incremented only by the step that takes the fox count
\* from 1 to 0, dead_everything only by the all-dead branch, each by one; the
\* fox count stays 0 for the rest of the run, and the all-dead branch ends the
\* loop, so a run counts at most once in each.  At every point
\* dead_everything <= dead_foxes, and between runs both are at most the
\* number of runs completed; within a run they exceed the number of runs
\* completed before it by at most one, and only once the run has no fox left
\* (dead_foxes) or has taken the all-dead branch (dead_everything).
C14_ExtinctionCounts ==
    /\ [](/\ 0 <= dead_everything
          /\ dead_everything <= dead_foxes
          /\ dead_foxes <= run + 1
          /\ pc \in {"while", "break"} =>
                /\ dead_foxes <= run + Bool(fox = 0)
                /\ dead_everything <= run + Bool(pc = "break"))
    /\ [][/\ dead_foxes' # dead_foxes =>
                dead_foxes' = dead_foxes + 1 /\ fox = 1 /\ fox' = 0
          /\ dead_everything' # dead_everything =>
                /\ dead_everything' = dead_everything + 1
                /\ rabbit = 0 /\ fox = 0
                /\ pc' = "break"
          /\ (fox = 0 /\ run' = run) => fox' = 0 /\ dead_foxes' = dead_foxes
          /\ (pc = "break" /\ run' = run) =>
                dead_everything' = dead_everything]_vars

\* The script has ended and every one of its runs was counted in both.
C14_Witness ==
    /\ pc = "done"
    /\ dead_everything = runs
    /\ dead_foxes = runs

====
